---- MODULE Spec2Model ----
(***************************************************************************)
(* AMS Profit Levers Simulator (src/app.py): a Streamlit script that is    *)
(* re-executed top to bottom on every user interaction.  The model has     *)
(*   - the session state written by reset_to_baseline (lines 42-55),       *)
(*   - the input widgets with their own widget state (lines 60-128),       *)
(*   - the currency scaling mult / conv (lines 66-68, 130-135),            *)
(*   - the monthly profitability calculations (lines 139-152),             *)
(*   - the metric display (lines 156-164) and the sensitivity series       *)
(*     (lines 169-176).                                                    *)
(* Python floats are modelled as binary floating point numbers with PREC   *)
(* significant bits, round to nearest, ties to even, unbounded exponent.   *)
(* The footer (lines 181-194) is not modelled: its string literal is not   *)
(* terminated (line 193), so the file compiles only once that is repaired; *)
(* the model is of lines 25-176 as they run then.                          *)
(***************************************************************************)
EXTENDS Integers, Sequences, FiniteSets, TLC

(***************************************************************************)
(* Bounds of the model.                                                    *)
(***************************************************************************)
\* significant bits of a float (53 in CPython); products must stay below 2^31
PREC == 14

\* user interactions of one session
MaxInteractions == 4

(***************************************************************************)
(* Floating point: a float is [m |-> mantissa, e |-> exponent], value      *)
(* m * 2^e, with m = 0 /\ e = 0 or 2^(PREC-1) <= |m| < 2^PREC.             *)
(***************************************************************************)
AbsI(i) == IF i < 0 THEN -i ELSE i

SgnI(i) == IF i < 0 THEN -1 ELSE IF i = 0 THEN 0 ELSE 1

RECURSIVE BitLen(_)
BitLen(n) ==
  IF n >= 16 THEN 4 + BitLen(n \div 16)
  ELSE IF n >= 8 THEN 4 ELSE IF n >= 4 THEN 3 ELSE IF n >= 2 THEN 2 ELSE n

Zero == [m |-> 0, e |-> 0]

\* quotient q with remainder r of a division by 2h, rounded to nearest, ties
\* to even
RoundQ(q, r, h) == IF r > h \/ (r = h /\ q % 2 = 1) THEN q + 1 ELSE q

\* sign s, rounded mantissa q, exponent e: rounding up may carry into 2^PREC
Carry(s, q, e) ==
  IF q = 2^PREC THEN [m |-> s * 2^(PREC-1), e |-> e + 1]
  ELSE [m |-> s * q, e |-> e]

\* m * 2^e for m # 0 with k bits more than PREC (fewer when k < 0)
Norm(m, e, k) ==
  IF k <= 0 THEN [m |-> m * 2^(-k), e |-> e + k]
  ELSE Carry(SgnI(m), RoundQ(AbsI(m) \div 2^k, AbsI(m) % 2^k, 2^(k-1)), e + k)

\* the float nearest to m * 2^e, ties to even
RoundNE(m, e) == IF m = 0 THEN Zero ELSE Norm(m, e, BitLen(AbsI(m)) - PREC)

\* float(n) for a Python int n
FromInt(n) == RoundNE(n, 0)

Neg(a) == [m |-> -a.m, e |-> a.e]

AbsF(a) == [m |-> AbsI(a.m), e |-> a.e]

\* a * b
Mul(a, b) == RoundNE(a.m * b.m, a.e + b.e)

\* al shifted right by sh bits, keeping a sticky bit for the bits shifted out
Shifted(al, sh) ==
  IF sh >= PREC THEN 1
  ELSE 2 * (al \div 2^sh) + (IF al % 2^sh = 0 THEN 0 ELSE 1)

\* hi + lo for hi.e - lo.e = d >= 0: beyond three bits of difference lo is
\* shifted right keeping three guard bits and a sticky bit, which is enough
\* for the correctly rounded sum
AddAligned(hi, lo, d) ==
  IF d <= 3 THEN RoundNE(hi.m * 2^d + lo.m, lo.e)
  ELSE RoundNE(hi.m * 16 + SgnI(lo.m) * Shifted(AbsI(lo.m), d - 3), hi.e - 4)

\* a + b
Add(a, b) ==
  IF a.m = 0 THEN b
  ELSE IF b.m = 0 THEN a
  ELSE IF a.e >= b.e THEN AddAligned(a, b, a.e - b.e)
  ELSE AddAligned(b, a, b.e - a.e)

Sub(a, b) == Add(a, Neg(b))

\* second step of the long division: quotient bits q1 so far, remainder
\* already shifted (rs); the last bit of the result is a sticky bit
LongDiv2(q1, rs, B) ==
  2 * (q1 * 2^(PREC-5) + rs \div B) + (IF rs % B = 0 THEN 0 ELSE 1)

\* A * 2^(PREC+3) \div B with a sticky bit, in two steps of 8 and PREC-5 bits
LongDiv(A, B) == LongDiv2((A * 256) \div B, ((A * 256) % B) * 2^(PREC-5), B)

\* a / b for b # 0
Div(a, b) ==
  IF a.m = 0 THEN Zero
  ELSE RoundNE(SgnI(a.m) * SgnI(b.m) * LongDiv(AbsI(a.m), AbsI(b.m)),
               a.e - b.e - PREC - 4)

\* a < b, exactly
Lt(a, b) ==
  IF SgnI(a.m) # SgnI(b.m) THEN SgnI(a.m) < SgnI(b.m)
  ELSE IF a.m = 0 THEN FALSE
  ELSE IF a.m > 0 THEN a.e < b.e \/ (a.e = b.e /\ a.m < b.m)
  ELSE a.e > b.e \/ (a.e = b.e /\ a.m < b.m)

Le(a, b) == ~Lt(b, a)

\* max(a, b) as Python's max of two floats: b only when b > a
MaxF(a, b) == IF Lt(a, b) THEN b ELSE a

\* int(x): truncation towards zero
IntOf(a) ==
  IF a.e >= 0 THEN a.m * 2^(a.e)
  ELSE IF -a.e >= 31 THEN 0
  ELSE SgnI(a.m) * (AbsI(a.m) \div 2^(-a.e))

\* the literal n/d written in decimal (0.51, 0.80, 0.10, ...)
Lit(n, d) == Div(FromInt(n), FromInt(d))

One == FromInt(1)

Hundred == FromInt(100)

(***************************************************************************)
(* Baseline constants (lines 25-39) and the session state (lines 42-55).   *)
(***************************************************************************)
AUD == "AUD '000"

THB == "THB '000"

BASELINE_ANNUAL ==
  [external_sales |-> FromInt(8658),
   internal_sales |-> FromInt(8245),
   fixed_costs    |-> FromInt(3702)]

BASELINE_MONTHLY ==
  [external_sales |-> Div(BASELINE_ANNUAL.external_sales, FromInt(12)),
   internal_sales |-> Div(BASELINE_ANNUAL.internal_sales, FromInt(12)),
   fixed_costs    |-> Div(BASELINE_ANNUAL.fixed_costs, FromInt(12)),
   efficiency     |-> Lit(51, 100),
   ext_cost_pct   |-> Lit(80, 100),
   int_cost_pct   |-> Lit(50, 100),
   repairs        |-> Zero,
   fx             |-> Zero]

\* st.session_state of a new session: no key is set (the values are fillers)
EmptySession ==
  [has |-> FALSE, currency |-> "", fx_rate |-> Zero,
   ext_sales_m |-> Zero, int_sales_m |-> Zero,
   ext_cost_pct |-> Zero, int_cost_pct |-> Zero, efficiency |-> Zero,
   fixed_m |-> Zero, repairs_m |-> Zero, fx_m |-> Zero]

\* the session state reset_to_baseline leaves when every assignment is made
BaselineSession ==
  [has |-> TRUE, currency |-> AUD, fx_rate |-> FromInt(24),
   ext_sales_m  |-> BASELINE_MONTHLY.external_sales,
   int_sales_m  |-> BASELINE_MONTHLY.internal_sales,
   ext_cost_pct |-> BASELINE_MONTHLY.ext_cost_pct,
   int_cost_pct |-> BASELINE_MONTHLY.int_cost_pct,
   efficiency   |-> BASELINE_MONTHLY.efficiency,
   fixed_m      |-> BASELINE_MONTHLY.fixed_costs,
   repairs_m    |-> BASELINE_MONTHLY.repairs,
   fx_m         |-> BASELINE_MONTHLY.fx]

\* lines 54-55 with the test dropped: every run seeds the session
SessionInit_always(s) == [seeded |-> TRUE, ss |-> BaselineSession]

\* reset_to_baseline() on session state s, when the widgets whose keys are in
\* inst were already instantiated in this script run: assigning
\* st.session_state[k] for such a key raises StreamlitAPIException, and the
\* assignments are made in the order of lines 43-52
reset_to_baseline(s, inst) ==
  IF "currency" \in inst THEN [raised |-> TRUE, ss |-> s]
  ELSE IF "fx_rate" \in inst
       THEN [raised |-> TRUE, ss |-> [s EXCEPT !.currency = AUD]]
       ELSE [raised |-> FALSE, ss |-> BaselineSession]

\* lines 54-55: a session without "ext_sales_m" is seeded
SessionInit(s) ==
  IF ~s.has THEN [seeded |-> TRUE, ss |-> reset_to_baseline(s, {}).ss]
  ELSE [seeded |-> FALSE, ss |-> s]

(***************************************************************************)
(* Currency scaling (lines 66-68).                                         *)
(***************************************************************************)
mult(currency, fx_rate) == IF currency = AUD THEN One ELSE fx_rate

unit(currency) == IF currency = AUD THEN "AUD'000" ELSE "THB'000"

\* line 68 without the reciprocal
conv_rate(currency, fx_rate) ==
  IF currency = AUD THEN [raised |-> FALSE, v |-> One]
  ELSE [raised |-> FALSE, v |-> fx_rate]

\* 1.0 / fx_rate raises ZeroDivisionError for fx_rate = 0
conv(currency, fx_rate) ==
  IF unit(currency) = "AUD'000" THEN [raised |-> FALSE, v |-> One]
  ELSE IF fx_rate.m = 0 THEN [raised |-> TRUE, v |-> Zero]
  ELSE [raised |-> FALSE, v |-> Div(One, fx_rate)]

(***************************************************************************)
(* Widgets.  A widget keeps its state between script runs; has = FALSE is  *)
(* a widget that has no state (never rendered, or its state was dropped).  *)
(***************************************************************************)
NoWidget == [has |-> FALSE, unit |-> "", dflt |-> Zero, val |-> Zero]

NumberWidgets == {"ext_sales", "int_sales", "fixed_costs", "repairs", "fx_impact"}

SliderWidgets == {"ext_cost_pct", "int_cost_pct", "efficiency"}

MainWidgets == NumberWidgets \cup SliderWidgets

\* st.number_input / st.slider rendered with the label's unit u and default d:
\* a widget without state takes its default; one whose label or default
\* changed is a new widget when the library identifies widgets by their
\* parameters (pid), and keeps its value when the key alone identifies it
Render(w, u, d, pid) ==
  IF ~w.has \/ (pid /\ (w.unit # u \/ w.dflt # d))
  THEN [has |-> TRUE, unit |-> u, dflt |-> d, val |-> d]
  ELSE [w EXCEPT !.unit = u, !.dflt = d]

\* the default value of each main widget (lines 75-128)
Default(name, s) ==
  CASE name = "ext_sales"    -> Mul(s.ext_sales_m, mult(s.currency, s.fx_rate))
    [] name = "int_sales"    -> Mul(s.int_sales_m, mult(s.currency, s.fx_rate))
    [] name = "fixed_costs"  -> Mul(s.fixed_m, mult(s.currency, s.fx_rate))
    [] name = "repairs"      -> Mul(s.repairs_m, mult(s.currency, s.fx_rate))
    [] name = "fx_impact"    -> Mul(s.fx_m, mult(s.currency, s.fx_rate))
    [] name = "ext_cost_pct" -> FromInt(IntOf(Mul(s.ext_cost_pct, Hundred)))
    [] name = "int_cost_pct" -> FromInt(IntOf(Mul(s.int_cost_pct, Hundred)))
    [] name = "efficiency"   -> s.efficiency

\* the unit in each main widget's label: the sliders' labels are fixed
LabelUnit(name, s) == IF name \in NumberWidgets THEN unit(s.currency) ELSE ""

\* lower and upper limit of a widget (min_value, max_value), when it has one
HasMin(name) == name # "fx_impact"

EfficiencyMin == Lit(30, 100)

EfficiencyMax == Lit(80, 100)

FxRateMin == FromInt(10)

FxRateMax == FromInt(50)

MinOf(name) ==
  CASE name = "efficiency" -> EfficiencyMin
    [] name = "fx_rate"    -> FxRateMin
    [] OTHER               -> Zero

HasMax(name) == name \in SliderWidgets \cup {"fx_rate"}

MaxOf(name) ==
  CASE name = "efficiency" -> EfficiencyMax
    [] name = "fx_rate"    -> FxRateMax
    [] OTHER               -> Hundred

\* widgets without min_value / max_value
InRange_unlimited(name, v) == TRUE

InRange(name, v) ==
  /\ HasMin(name) => Le(MinOf(name), v)
  /\ HasMax(name) => Le(v, MaxOf(name))

Clamp(name, v) ==
  IF HasMin(name) /\ Lt(v, MinOf(name)) THEN MinOf(name)
  ELSE IF HasMax(name) /\ Lt(MaxOf(name), v) THEN MaxOf(name)
  ELSE v

\* the values a widget holding old can take when the user enters v: a value
\* outside the widget's limits is refused or moved to the nearest limit
Commit(name, old, v) == IF InRange(name, v) THEN {v} ELSE {old, Clamp(name, v)}

(***************************************************************************)
(* Calculations (lines 130-152).                                           *)
(***************************************************************************)
\* lines 131-135: display amount times conv
to_native(amount, c) == Mul(amount, c)

\* lines 139-140: max(0.0, 1.0 - cost_pct)
base_margin(cost_pct) == MaxF(Zero, Sub(One, cost_pct))

\* lines 142-143: sales * base_margin * efficiency
gross_profit(sales, margin, efficiency) == Mul(Mul(sales, margin), efficiency)

\* line 145 with the sign of _repairs flipped
operating_profit_plus_repairs(total_gp, fixed, repairs, fx) ==
  Add(Add(Sub(total_gp, fixed), repairs), fx)

\* line 145: total_gp - _fixed - _repairs + _fx
operating_profit(total_gp, fixed, repairs, fx) ==
  Add(Sub(Sub(total_gp, fixed), repairs), fx)

\* a float that may be infinite: kind is "fin", "inf", "-inf" or "nan"
Fin(v) == [kind |-> "fin", v |-> v]

Inf == [kind |-> "inf", v |-> Zero]

\* lines 149-152 returning 0.0 where the code returns math.inf
be_ext_sales_zero(fixed, repairs, fx, int_gp, den) ==
  IF Lt(Zero, den)
  THEN Fin(MaxF(Zero, Div(Sub(Sub(Add(fixed, repairs), fx), int_gp), den)))
  ELSE Fin(Zero)

\* lines 149-152 with the sign of _fx flipped
be_ext_sales_plus_fx(fixed, repairs, fx, int_gp, den) ==
  IF Lt(Zero, den)
  THEN Fin(MaxF(Zero, Div(Sub(Add(Add(fixed, repairs), fx), int_gp), den)))
  ELSE Inf

\* lines 149-152
be_ext_sales(fixed, repairs, fx, int_gp, den) ==
  IF Lt(Zero, den)
  THEN Fin(MaxF(Zero, Div(Sub(Sub(Add(fixed, repairs), fx), int_gp), den)))
  ELSE Inf

\* x * k for a possibly infinite x
MulX(x, k) ==
  IF x.kind = "fin" THEN Fin(Mul(x.v, k))
  ELSE IF x.kind = "nan" \/ k.m = 0 THEN [kind |-> "nan", v |-> Zero]
  ELSE IF (x.kind = "inf") = (k.m > 0) THEN Inf
  ELSE [kind |-> "-inf", v |-> Zero]

\* round(x) to an integer, ties to even, as the format ".0f" does
RoundInt(a) ==
  IF a.e >= 0 THEN a.m * 2^(a.e)
  ELSE IF -a.e >= 31 THEN 0
  ELSE SgnI(a.m) * RoundQ(AbsI(a.m) \div 2^(-a.e), AbsI(a.m) % 2^(-a.e),
                          2^(-a.e - 1))

\* f"{x:,.0f}": the text of a finite number is its rounded integer, that of
\* an infinity or a nan is its name
Format0(x) ==
  IF x.kind = "fin" THEN [text |-> "number", n |-> RoundInt(x.v)]
  ELSE [text |-> x.kind, n |-> 0]

\* the inputs of the calculations: amounts in AUD'000, fractions
Inputs(ext_sales, int_sales, fixed, repairs, fx, ext_cost_pct, int_cost_pct, efficiency) ==
  [ext_sales |-> ext_sales, int_sales |-> int_sales, fixed |-> fixed,
   repairs |-> repairs, fx |-> fx, ext_cost_pct |-> ext_cost_pct,
   int_cost_pct |-> int_cost_pct, efficiency |-> efficiency]

\* lines 139-145 on inputs i
ext_base_margin(i) == base_margin(i.ext_cost_pct)

int_base_margin(i) == base_margin(i.int_cost_pct)

ext_gp(i) == gross_profit(i.ext_sales, ext_base_margin(i), i.efficiency)

int_gp(i) == gross_profit(i.int_sales, int_base_margin(i), i.efficiency)

total_gp(i) == Add(ext_gp(i), int_gp(i))

OpOf(i) == operating_profit(total_gp(i), i.fixed, i.repairs, i.fx)

\* line 148
den(i) == Mul(ext_base_margin(i), i.efficiency)

(***************************************************************************)
(* Sensitivity series (lines 169-176).                                     *)
(***************************************************************************)
MaxI(a, b) == IF b > a THEN b ELSE a

\* line 169
SensBase(ext_sales) ==
  IntOf(IF Lt(Zero, ext_sales) THEN ext_sales ELSE BASELINE_MONTHLY.external_sales)

\* the literals 0.10, 0.5 and 1.8 of lines 170-171
Tenth == Lit(10, 100)

Half == Lit(5, 10)

OnePointEight == Lit(18, 10)

\* line 170
SensStep(base) == MaxI(20, IntOf(Mul(FromInt(base), Tenth)))

\* list(range(lo, hi, st)) for st > 0
RECURSIVE Range(_, _, _)
Range(lo, hi, st) == IF lo >= hi THEN <<>> ELSE <<lo>> \o Range(lo + st, hi, st)

\* line 171 with the stop one step further
SensSizes_overshoot(base) ==
  Range(IntOf(Mul(FromInt(base), Half)),
        IntOf(Mul(FromInt(base), OnePointEight)) + 1 + SensStep(base),
        SensStep(base))

\* line 171
SensSizes(base) ==
  Range(IntOf(Mul(FromInt(base), Half)),
        IntOf(Mul(FromInt(base), OnePointEight)) + 1,
        SensStep(base))

\* lines 174-175: the operating profit at external sales s
SensOp(s, i) ==
  Add(Sub(Sub(Add(Mul(Mul(FromInt(s), ext_base_margin(i)), i.efficiency),
                  int_gp(i)),
              i.fixed),
          i.repairs),
      i.fx)

\* lines 172-176: the rows of the chart for the list sizes
RowsOf(sizes, i) ==
  [n \in 1..Len(sizes) |-> [sales |-> sizes[n], op |-> SensOp(sizes[n], i)]]

SensRows(i) == RowsOf(SensSizes(SensBase(i.ext_sales)), i)

\* what the script derives from inputs i (lines 139-171)
Metrics(i) ==
  [ext_base_margin |-> ext_base_margin(i), int_base_margin |-> int_base_margin(i),
   ext_gp |-> ext_gp(i), int_gp |-> int_gp(i), total_gp |-> total_gp(i),
   op  |-> OpOf(i),
   den |-> den(i),
   be  |-> be_ext_sales(i.fixed, i.repairs, i.fx, int_gp(i), den(i)),
   base  |-> SensBase(i.ext_sales),
   sizes |-> SensSizes(SensBase(i.ext_sales))]

\* lines 156-164: the four metrics as displayed
Shown(m, k) ==
  [ext_gp   |-> Format0(Fin(Mul(m.ext_gp, k))),
   total_gp |-> Format0(Fin(Mul(m.total_gp, k))),
   op       |-> Format0(Fin(Mul(m.op, k))),
   be       |-> Format0(MulX(m.be, k))]

(***************************************************************************)
(* The script run (lines 54-176) and the session.                          *)
(***************************************************************************)
VARIABLES
  ss,    \* st.session_state: the keys reset_to_baseline writes
  wid,   \* the state of the main widgets, by the name of the script's variable
  out,   \* what the last script run computed and displayed
  lib,   \* how the installed Streamlit treats widgets (fixed for a session)
  hist,  \* the interactions so far: the last one, whether Reset preceded it
  cv,    \* the currency scaling applied to one amount
  pm     \* the calculations applied to one scenario

vars == <<ss, wid, out, lib, hist, cv, pm>>

NoInputs == Inputs(Zero, Zero, Zero, Zero, Zero, Zero, Zero, Zero)

NoMetrics == Metrics(NoInputs)

NoShown == Shown(NoMetrics, Zero)

\* the result of a script run that stopped with an exception, or of none
Failed(status, s, seeded) ==
  [status |-> status, seeded |-> seeded, currency |-> s.currency,
   fx_rate |-> s.fx_rate, mult |-> Zero, conv |-> Zero, in |-> NoInputs,
   m |-> NoMetrics, shown |-> NoShown]

\* lines 75-128: every main widget rendered on session state s
Rendered(s, w, pid) ==
  [n \in MainWidgets |-> Render(w[n], LabelUnit(n, s), Default(n, s), pid)]

\* lines 75-135: the inputs read from the rendered widgets w1, in native units
InputsOf(w1, c) ==
  Inputs(to_native(w1["ext_sales"].val, c),
         to_native(w1["int_sales"].val, c),
         to_native(w1["fixed_costs"].val, c),
         to_native(w1["repairs"].val, c),
         to_native(w1["fx_impact"].val, c),
         Div(w1["ext_cost_pct"].val, Hundred),
         Div(w1["int_cost_pct"].val, Hundred),
         w1["efficiency"].val)

\* lines 139-176 on inputs i with derived values m
Computed(s, seeded, k, c, w1, i, m) ==
  [ss |-> s, wid |-> w1, rendered |-> TRUE,
   out |-> [status |-> "ok", seeded |-> seeded, currency |-> s.currency,
            fx_rate |-> s.fx_rate, mult |-> k, conv |-> c, in |-> i,
            m |-> m, shown |-> Shown(m, k)]]

Compute(s, seeded, k, c, w1, i) == Computed(s, seeded, k, c, w1, i, Metrics(i))

\* lines 75-176 once conv is known
Main(s, seeded, c, w1) ==
  Compute(s, seeded, mult(s.currency, s.fx_rate), c, w1, InputsOf(w1, c))

\* lines 66-176 with c the outcome of line 68
BodyWith(s, w, pid, seeded, c) ==
  IF c.raised
  THEN [ss |-> s, wid |-> w, rendered |-> FALSE,
        out |-> Failed("ZeroDivisionError", s, seeded)]
  ELSE Main(s, seeded, c.v, Rendered(s, w, pid))

\* lines 66-176 on session state s and widget states w
Body(s, w, pid, seeded) == BodyWith(s, w, pid, seeded, conv(s.currency, s.fx_rate))

\* lines 62-64 with r the outcome of reset_to_baseline()
Clicked(r, w, pid, seeded) ==
  IF r.raised
  THEN [ss |-> r.ss, wid |-> w, rendered |-> FALSE,
        out |-> Failed("StreamlitAPIException", r.ss, seeded)]
  \* st.experimental_rerun(): the script starts again, button released
  ELSE Body(r.ss, w, pid, seeded)

\* lines 58-176 after lines 54-55 left si
RunFrom(si, w, btn, pid) ==
  IF ~si.ss.has
  THEN [ss |-> si.ss, wid |-> w, rendered |-> FALSE,
        out |-> Failed("AttributeError", si.ss, si.seeded)]
  ELSE IF ~btn THEN Body(si.ss, w, pid, si.seeded)
  ELSE Clicked(reset_to_baseline(si.ss, {"currency", "fx_rate"}), w, pid, si.seeded)

\* one run of the script, top to bottom, with the Reset button pressed (btn)
\* or not: lines 54-55, the sidebar (58-64), then lines 66-176
ScriptRun(s0, w, btn, pid) == RunFrom(SessionInit(s0), w, btn, pid)

\* the values the user tries to enter: some are outside the widget's limits
AttemptsOf ==
  [ext_sales    |-> {FromInt(-100), FromInt(1000)},
   int_sales    |-> {FromInt(0)},
   fixed_costs  |-> {FromInt(0)},
   repairs      |-> {FromInt(-10), FromInt(50)},
   fx_impact    |-> {FromInt(-50), FromInt(400)},
   ext_cost_pct |-> {FromInt(100), FromInt(120)},
   int_cost_pct |-> {FromInt(-5)},
   efficiency   |-> {Lit(30, 100), Lit(95, 100)},
   fx_rate      |-> {FromInt(5), FromInt(60)}]

Attempts(name) == AttemptsOf[name]

CurrencyOptions == {AUD, THB}

NoOut == Failed("none", EmptySession, FALSE)

NoConv == [x |-> Zero, currency |-> AUD, rate |-> One, shown |-> Zero,
           status |-> "none", native |-> Zero]

NoPm == [in |-> NoInputs, m |-> NoMetrics, rows |-> SensRows(NoInputs),
         lever |-> "none", prev |-> NoInputs]

NoHist == [last |-> "none", afterReset |-> FALSE, refused |-> FALSE, n |-> 0]

Init ==
  /\ ss = EmptySession
  /\ wid = [n \in MainWidgets |-> NoWidget]
  /\ out = NoOut
  /\ lib \in [pid : BOOLEAN, cull : BOOLEAN]
  /\ hist = NoHist
  /\ cv = NoConv
  /\ pm = NoPm

\* the script runs on session state s and widget states w; after an
\* exception the widgets that were not rendered lose their state when the
\* library drops the state of widgets absent from a run (lib.cull); refused
\* records that the user's entry was outside the widget's limits
Interact(s, w, btn, what, refused) ==
  /\ hist.n < MaxInteractions
  /\ \E r \in {ScriptRun(s, w, btn, lib.pid)} :
       /\ ss' = r.ss
       /\ wid' = IF ~r.rendered /\ lib.cull
                 THEN [n \in MainWidgets |-> NoWidget]
                 ELSE r.wid
       /\ out' = r.out
  /\ hist' = [last |-> what, afterReset |-> hist.last = "reset",
              refused |-> refused, n |-> hist.n + 1]
  /\ UNCHANGED <<lib, cv, pm>>

\* the user opens the page: the first run of the script in the session
Open == ~ss.has /\ Interact(ss, wid, FALSE, "open", FALSE)

\* the user reruns the script without touching a widget
Rerun == ss.has /\ Interact(ss, wid, FALSE, "rerun", FALSE)

\* line 60: the user picks a display currency
ChooseCurrency ==
  /\ ss.has
  /\ \E c \in CurrencyOptions \cup {"USD '000"} :
       Interact(IF c \in CurrencyOptions THEN [ss EXCEPT !.currency = c] ELSE ss,
                wid, FALSE, "currency", c \notin CurrencyOptions)

\* line 61: the user enters an exchange rate
TypeFxRate ==
  /\ ss.has
  /\ \E v \in Attempts("fx_rate") : \E nv \in Commit("fx_rate", ss.fx_rate, v) :
       Interact([ss EXCEPT !.fx_rate = nv], wid, FALSE, "fx_rate",
                ~InRange("fx_rate", v))

\* lines 75-128: the user changes one of the main widgets, which are on the
\* page when the last run rendered them
Edit ==
  /\ ss.has
  /\ out.status = "ok"
  /\ \E n \in MainWidgets : \E v \in Attempts(n) :
       \E nv \in Commit(n, wid[n].val, v) :
         Interact(ss, [wid EXCEPT ![n].val = nv], FALSE, "edit", ~InRange(n, v))

\* line 62: the user clicks the Reset button
ClickReset == ss.has /\ Interact(ss, wid, TRUE, "reset", FALSE)

Next == Open \/ Rerun \/ ChooseCurrency \/ TypeFxRate \/ Edit \/ ClickReset

Spec == Init /\ [][Next]_vars

(***************************************************************************)
(* The currency scaling alone: lines 66-68 and 131-135 applied to one      *)
(* amount x, for rates inside and outside the limits of the rate widget.   *)
(***************************************************************************)
\* amounts are multiples of 1/12 up to ConvAmountMax / 12
ConvAmountMax == 40

ConvAmounts ==
  {Lit(n, 12) : n \in 0..ConvAmountMax}
    \cup {BASELINE_MONTHLY.external_sales, BASELINE_MONTHLY.fixed_costs, FromInt(1000)}

ConvRates ==
  {FromInt(-1), Zero, FromInt(10), Lit(241, 10), FromInt(24), Lit(333, 10),
   FromInt(50)}

\* x shown in the display unit (x * mult) and read back (shown * conv), with
\* c the outcome of line 68
Converted(x, currency, rate, c) ==
  [x |-> x, currency |-> currency, rate |-> rate,
   shown  |-> Mul(x, mult(currency, rate)),
   status |-> IF c.raised THEN "ZeroDivisionError" ELSE "ok",
   native |-> IF c.raised THEN Zero
              ELSE to_native(Mul(x, mult(currency, rate)), c.v)]

Idle ==
  /\ ss = EmptySession
  /\ wid = [n \in MainWidgets |-> NoWidget]
  /\ out = NoOut
  /\ lib = [pid |-> TRUE, cull |-> FALSE]
  /\ hist = NoHist

ConvInit == Idle /\ cv = NoConv /\ pm = NoPm

Convert ==
  /\ cv.status = "none"
  /\ \E x \in ConvAmounts, currency \in CurrencyOptions, rate \in ConvRates :
       cv' = Converted(x, currency, rate, conv(currency, rate))
  /\ UNCHANGED <<ss, wid, out, lib, hist, pm>>

ConvNext == Convert

ConvSpec == ConvInit /\ [][ConvNext]_vars

(***************************************************************************)
(* The calculations alone: lines 139-171 applied to a scenario, and to the *)
(* scenario with one input changed.                                        *)
(***************************************************************************)
Scenarios ==
  [ext_sales    : {BASELINE_MONTHLY.external_sales, FromInt(1000)},
   int_sales    : {Zero, BASELINE_MONTHLY.internal_sales},
   fixed        : {Zero, BASELINE_MONTHLY.fixed_costs},
   repairs      : {Zero, FromInt(50)},
   fx           : {FromInt(-50), FromInt(400)},
   ext_cost_pct : {Lit(80, 100), Lit(99, 100), One},
   int_cost_pct : {Lit(50, 100), One},
   efficiency   : {EfficiencyMin, EfficiencyMax}]

\* external sales from 0 to MaxHalfUnits / 2 in halves
MaxHalfUnits == 40

LeverValues ==
  [ext_sales    |-> {Lit(n, 2) : n \in 0..MaxHalfUnits}
                      \cup {BASELINE_MONTHLY.external_sales, FromInt(1000),
                            FromInt(1305), FromInt(2000)},
   int_sales    |-> {Zero, BASELINE_MONTHLY.internal_sales, FromInt(900)},
   fixed        |-> {Zero, BASELINE_MONTHLY.fixed_costs, FromInt(400)},
   repairs      |-> {Zero, FromInt(50), FromInt(120)},
   fx           |-> {FromInt(-50), Zero, FromInt(1), FromInt(400)},
   ext_cost_pct |-> {Zero, Lit(80, 100), Lit(99, 100), One},
   int_cost_pct |-> {Zero, Lit(50, 100), One},
   efficiency   |-> {EfficiencyMin, BASELINE_MONTHLY.efficiency, EfficiencyMax}]

Levers == DOMAIN LeverValues

\* the calculations on inputs i, reached from inputs prev by changing lever,
\* with the rows of the chart
Calculated(prev, i, lever) ==
  [in |-> i, m |-> Metrics(i), rows |-> SensRows(i), lever |-> lever,
   prev |-> prev]

ModelInit ==
  /\ Idle
  /\ cv = NoConv
  /\ pm \in {Calculated(i, i, "none") : i \in Scenarios}

Pull ==
  /\ pm.lever = "none"
  /\ \E l \in Levers : \E v \in LeverValues[l] :
       pm' = Calculated(pm.in, [pm.in EXCEPT ![l] = v], l)
  /\ UNCHANGED <<ss, wid, out, lib, hist, cv>>

ModelNext == Pull

ModelSpec == ModelInit /\ [][ModelNext]_vars

(***************************************************************************)
(* Properties.                                                             *)
(***************************************************************************)
\* a * 2^n
Scale2(a, n) == IF a.m = 0 THEN Zero ELSE [m |-> a.m, e |-> a.e + n]

\* |a - b| <= 2^(n - PREC) * max(|a|, |b|): equal up to 2^n roundings
Close(a, b, n) ==
  Le(AbsF(Sub(a, b)), Scale2(MaxF(AbsF(a), AbsF(b)), n - PREC))

Monetary == {"ext_sales", "int_sales", "fixed", "repairs", "fx"}

\* what the calculations read in a new session
BaselineInputs ==
  InputsOf(Rendered(BaselineSession, [n \in MainWidgets |-> NoWidget], TRUE), One)

\* C1: after a click on Reset, the next computation (the next script run,
\* with no edit in between) reads the baseline value of every scenario
\* field: the eight model inputs, the currency AUD and the rate 24.0.
C1_ResetRestoresBaseline ==
  (hist.afterReset /\ hist.last = "rerun" /\ out.status = "ok") =>
    /\ out.currency = AUD
    /\ out.fx_rate = FromInt(24)
    /\ out.in = BaselineInputs

\* C2: a step that only picks the display currency or only enters the
\* exchange rate leaves the native value of every monetary input of the
\* calculations unchanged (up to the rounding of the scaling).
C2_UnitChangeKeepsNative ==
  [][(hist'.last \in {"currency", "fx_rate"}
        /\ out.status = "ok" /\ out'.status = "ok")
      => \A f \in Monetary : Close(out.in[f], out'.in[f], 3)]_vars

\* C5: a script run raises only when Reset was clicked; a run with external
\* cost 100% has a break-even denominator <= 0; and whenever the denominator
\* is <= 0 the break-even is +infinity and is displayed as "inf".
C5_DegenerateBreakEven ==
  /\ hist.last \notin {"none", "reset"} => out.status = "ok"
  /\ out.status = "ok" =>
       /\ out.in.ext_cost_pct = One => Le(out.m.den, Zero)
       /\ Le(out.m.den, Zero) => out.m.be = Inf /\ out.shown.be.text = "inf"

C5_Witness ==
  /\ out.status = "ok"
  /\ out.in.ext_cost_pct = One
  /\ out.in.efficiency = EfficiencyMin
  /\ out.shown.be.text = "inf"

\* C8: the values a script run feeds to the calculations satisfy the
\* constraint table (cost fractions in [0,1], efficiency in [0.30,0.80],
\* sales, fixed costs and repairs >= 0, rate in [10,50], currency one of the
\* two options), also after entries outside a widget's limits; the stored
\* rate and currency satisfy it too.
C8_InputsInDomain ==
  /\ ss.has => /\ ss.currency \in CurrencyOptions
               /\ Le(FxRateMin, ss.fx_rate) /\ Le(ss.fx_rate, FxRateMax)
  /\ out.status = "ok" =>
       /\ out.currency \in CurrencyOptions
       /\ Le(FxRateMin, out.fx_rate) /\ Le(out.fx_rate, FxRateMax)
       /\ \A f \in {"ext_cost_pct", "int_cost_pct"} :
            Le(Zero, out.in[f]) /\ Le(out.in[f], One)
       /\ Le(EfficiencyMin, out.in.efficiency)
       /\ Le(out.in.efficiency, EfficiencyMax)
       /\ \A f \in {"ext_sales", "int_sales", "fixed", "repairs"} :
            Le(Zero, out.in[f])

C8_Witness == hist.refused /\ hist.last = "edit" /\ out.status = "ok"

\* C10: the first script run of a session seeds the session state before
\* anything reads it (no run stops on a missing key, and every run leaves
\* the state populated), and no later run seeds it again.
C10_SeededOnceBeforeRead ==
  /\ out.status # "AttributeError"
  /\ hist.n >= 1 => ss.has
  /\ out.seeded <=> hist.n = 1

C10_Witness ==
  /\ hist.n >= 2
  /\ ~out.seeded
  /\ out.status = "ok"
  /\ out.currency = THB

\* the rate is one the rate widget accepts
RateInLimits == Le(FxRateMin, cv.rate) /\ Le(cv.rate, FxRateMax)

\* C6 as stated: for a rate in [10, 50] the amount shown in the display unit
\* and read back equals the amount exactly.
C6_RoundTripExact ==
  (cv.status = "ok" /\ RateInLimits) => cv.native = cv.x

\* C6: for a rate in [10, 50] the amount read back equals the amount exactly
\* under AUD, and differs from it by at most 4 * 2^-PREC of the amount under
\* THB (x * rate * (1.0 / rate): three roundings).
C6_RoundTripClose ==
  (cv.status = "ok" /\ RateInLimits) =>
    /\ cv.currency = AUD => cv.native = cv.x /\ cv.shown = cv.x
    /\ cv.currency = THB =>
         Le(AbsF(Sub(cv.native, cv.x)), Scale2(cv.x, 2 - PREC))

C6_Witness ==
  /\ cv.status = "ok"
  /\ RateInLimits
  /\ cv.currency = THB
  /\ cv.native # cv.x
  /\ Lt(FromInt(100), cv.x)

BreakEvenOp == OpOf([pm.in EXCEPT !.ext_sales = pm.m.be.v])

\* the rounding allowed on it: 2^(4 - PREC) of the amounts it is made of
BreakEvenTol ==
  Scale2(Add(Add(Add(pm.in.fixed, pm.in.repairs), AbsF(pm.in.fx)), pm.m.int_gp),
         4 - PREC)

\* C3 as stated: for every finite break-even, the operating profit
\* recomputed with external sales at the break-even is 0 (up to rounding),
\* here after one input of a scenario was changed.
C3_BreakEvenIsZero ==
  (pm.lever # "none" /\ pm.m.be.kind = "fin") =>
    Le(AbsF(BreakEvenOp), BreakEvenTol)

\* C3: for every finite break-even > 0, the operating profit recomputed with
\* external sales at the break-even is 0 up to rounding; a break-even of 0
\* (the formula clamped at 0) gives an operating profit >= 0 up to rounding.
C3_BreakEvenClamped ==
  pm.m.be.kind = "fin" =>
    IF Lt(Zero, pm.m.be.v) THEN Le(AbsF(BreakEvenOp), BreakEvenTol)
    ELSE Le(Neg(BreakEvenTol), BreakEvenOp)

C3_Witness ==
  /\ pm.lever = "fx"
  /\ pm.m.be.kind = "fin"
  /\ Lt(FromInt(1000), pm.m.be.v)
  /\ BreakEvenOp # Zero

StrictlyIncreasing(s) == \A n \in 1..(Len(s) - 1) : s[n] < s[n + 1]

\* C4 as stated: the series is non-empty, strictly increasing, and every
\* size s has 0.5 * base <= s <= 1.8 * base (with the integer base of line
\* 169), here after the external sales of a scenario were changed.
C4_SeriesWithinBase ==
  pm.lever = "ext_sales" =>
    /\ Len(pm.m.sizes) >= 1
    /\ StrictlyIncreasing(pm.m.sizes)
    /\ \A n \in 1..Len(pm.m.sizes) :
         2 * pm.m.sizes[n] >= pm.m.base /\ 5 * pm.m.sizes[n] <= 9 * pm.m.base

\* C4: the series is non-empty, strictly increasing, starts at
\* floor(0.5 * base) and every size s has
\* floor(0.5 * base) <= s <= floor(1.8 * base), where base is the integer
\* part of the external sales (of the baseline when they are 0).
C4_SeriesWithinFloor ==
  /\ pm.m.base = SensBase(pm.in.ext_sales)
  /\ Len(pm.m.sizes) >= 1
  /\ StrictlyIncreasing(pm.m.sizes)
  /\ pm.m.sizes[1] = pm.m.base \div 2
  /\ \A n \in 1..Len(pm.m.sizes) :
       pm.m.sizes[n] >= pm.m.base \div 2 /\ 5 * pm.m.sizes[n] <= 9 * pm.m.base

C4_Witness ==
  /\ pm.lever = "ext_sales"
  /\ pm.m.base = 1305
  /\ Len(pm.m.sizes) > 10
  /\ 2 * pm.m.sizes[1] < pm.m.base

Rising == {"ext_sales", "int_sales", "efficiency"}

Falling == {"fixed", "repairs"}

\* C9: when one of external sales, internal sales, efficiency changes and
\* the rest stays, the operating profit moves the same way (non-strictly);
\* when fixed costs or repairs change, it moves the opposite way.
C9_Monotone ==
  /\ pm.lever \in Rising =>
       /\ Le(pm.prev[pm.lever], pm.in[pm.lever]) => Le(OpOf(pm.prev), pm.m.op)
       /\ Le(pm.in[pm.lever], pm.prev[pm.lever]) => Le(pm.m.op, OpOf(pm.prev))
  /\ pm.lever \in Falling =>
       /\ Le(pm.prev[pm.lever], pm.in[pm.lever]) => Le(pm.m.op, OpOf(pm.prev))
       /\ Le(pm.in[pm.lever], pm.prev[pm.lever]) => Le(OpOf(pm.prev), pm.m.op)

C9_Witness ==
  /\ pm.lever = "repairs"
  /\ Lt(pm.prev.repairs, pm.in.repairs)
  /\ Lt(pm.m.op, OpOf(pm.prev))
====
